---------------------------- MODULE Spec2Model ----------------------------
(***************************************************************************)
(* Resume_Tailor: the section/bullet extraction-and-splice engine          *)
(* (bullet_utils.py), the bullet rewriter (llm_utils.py) and the           *)
(* orchestrator (tailor.py).                                               *)
(*                                                                         *)
(* A text is a sequence of tokens.  A token is one character ("\n", "\r",  *)
(* " ", "\t", "-", "*", "1", "a", ...) or one word that the regular        *)
(* expressions of the program can only match or skip as a whole: a run of  *)
(* letters and inner spaces such as "PROJECTS" or "Work Experience", or    *)
(* the label "Rewritten Bullet Point:".                                    *)
(***************************************************************************)
EXTENDS Integers, Sequences, FiniteSets, TLC

VARIABLES
    pc,                    \* position of the caller / of tailor_resume_file
    resume_text,           \* tailor.py:7   text returned by load_resume_text
    job_description,       \* tailor.py:6   parameter
    tailored,              \* tailor.py:8   running copy of the document
    section_idx,           \* tailor.py:10  index into the section-name list
    original_section_body, \* tailor.py:11
    old_bullets,           \* tailor.py:14
    new_bullets,           \* tailor.py:17 / llm_utils.py:30 (aligned)
    new_section_body,      \* tailor.py:18
    llm_calls,             \* the calls made to llm(prompt), llm_utils.py:24
    rewritten_unchanged    \* every new_bullets list so far equalled old_bullets

vars == <<pc, resume_text, job_description, tailored, section_idx,
          original_section_body, old_bullets, new_bullets, new_section_body,
          llm_calls, rewritten_unchanged>>

---------------------------------------------------------------------------
(* Characters and character classes of Python's re module                 *)

NL == "\n"
CR == "\r"

\* [\t ]
Blank == {" ", "\t"}

\* \s  (str patterns: Unicode whitespace; the members the model uses)
Space == {" ", "\t", NL, CR}

\* the line boundaries str.splitlines() splits on (the members the model uses)
LineBreak == {NL, CR}

\* [-\*•]
Glyph == {"-", "*", "u2022"}

\* words made of upper-case letters (and inner spaces) only
UpperWord == {"WORK EXPERIENCE", "PROJECTS", "EDUCATION", "ACHIEVEMENTS", "E"}

\* words made of letters (and inner spaces) with at least one lower-case letter
MixedWord == {"Work Experience", "Projects", "Side", "text", "a", "b", "z"}

\* [A-Z] under (?i): any letter starts the class; a word is a run of them
Word == UpperWord \cup MixedWord

\* the label align_bullet removes, in two spellings
Label == {"Rewritten Bullet Point:", "rewritten bullet point:"}

\* str.lower() on the words that spell a section name
Lower(t) ==
    CASE t \in {"WORK EXPERIENCE", "Work Experience"} -> "work experience"
      [] t \in {"PROJECTS", "Projects"} -> "projects"
      [] OTHER -> t

\* number of characters of a token
TokLen(t) == Len(t)

---------------------------------------------------------------------------
(* Text helpers                                                            *)

\* the text from position p on
From(t, p) == SubSeq(t, p, Len(t))

\* last position of the line that starts at p: '.' does not match "\n"
LineEnd(t, p) ==
    IF \E i \in p..Len(t) : t[i] = NL
    THEN (CHOOSE i \in p..Len(t) : t[i] = NL /\ \A j \in p..(i-1) : t[j] # NL) - 1
    ELSE Len(t)

\* last position of the longest run of characters of class S starting at p
\* (p - 1 when t[p] is not in S)
RunEnd(t, p, S) ==
    IF \E i \in p..Len(t) : t[i] \notin S
    THEN (CHOOSE i \in p..Len(t) : t[i] \notin S /\ \A j \in p..(i-1) : t[j] \in S) - 1
    ELSE Len(t)

RECURSIVE SumLen(_)
SumLen(t) == IF t = <<>> THEN 0 ELSE TokLen(Head(t)) + SumLen(Tail(t))

\* str.strip()
Strip(t) ==
    IF \A i \in 1..Len(t) : t[i] \in Space
    THEN <<>>
    ELSE LET a == CHOOSE i \in 1..Len(t) :
                      t[i] \notin Space /\ \A j \in 1..(i-1) : t[j] \in Space
             b == CHOOSE i \in 1..Len(t) :
                      t[i] \notin Space /\ \A j \in (i+1)..Len(t) : t[j] \in Space
         IN  SubSeq(t, a, b)

\* "\n".join(lines)
RECURSIVE Join(_)
Join(lines) ==
    IF lines = <<>> THEN <<>>
    ELSE IF Len(lines) = 1 THEN lines[1]
    ELSE lines[1] \o <<NL>> \o Join(Tail(lines))

---------------------------------------------------------------------------
(* bullet_utils.py: extract_section / replace_section                      *)

\* the lookahead \n[A-Z][A-Z ]+\n under (?i), tried at position q + 1
HeadingAhead(t, q) ==
    /\ q + 2 <= Len(t)
    /\ t[q+1] = NL
    /\ LET r == LineEnd(t, q + 2)
       IN  /\ r < Len(t)
           /\ r >= q + 2
           /\ t[q+2] \in Word
           /\ \A i \in (q+2)..r : t[i] \in Word \cup {" "}
           /\ SumLen(SubSeq(t, q + 2, r)) >= 2

\* (?=\n[A-Z][A-Z ]+\n|\Z) at the end q of the body
BodyEndsAt(t, q) == q = Len(t) \/ HeadingAhead(t, q)

\* the ends e of a header  name\s*\n  that starts at s and allows a body
HeaderEnds(t, name, s) ==
    {e \in (s+1)..Len(t) :
        /\ t[e] = NL
        /\ \A j \in (s+1)..(e-1) : t[j] \in Space
        /\ BodyEndsAt(t, LineEnd(t, e + 1))}

\* the pattern matches with its header starting at s
MatchesAt(t, name, s) ==
    /\ Lower(t[s]) = Lower(name)
    /\ HeaderEnds(t, name, s) # {}

\* the starts of a match at or after position p
MatchStarts(t, name, p) == {s \in p..Len(t) : MatchesAt(t, name, s)}

Min(S) == CHOOSE x \in S : \A y \in S : x <= y
Max(S) == CHOOSE x \in S : \A y \in S : x >= y

\* re.search from position p: the leftmost match; \s* is greedy, .*? is lazy
\* and stops only where the lookahead holds, which is the end of the line
SectionMatch(t, name, p) ==
    LET s == Min(MatchStarts(t, name, p))
        e == Max(HeaderEnds(t, name, s))
    IN  [start |-> s, header_end |-> e, body_end |-> LineEnd(t, e + 1)]

\* a variant that hands back the whole document when no heading matches
extract_section_whole_when_absent(resume, section_name) ==
    IF MatchStarts(resume, section_name, 1) = {}
    THEN resume
    ELSE LET m == SectionMatch(resume, section_name, 1)
         IN  SubSeq(resume, m.header_end + 1, m.body_end)

extract_section(resume, section_name) ==
    IF MatchStarts(resume, section_name, 1) = {}
    THEN <<>>
    ELSE LET m == SectionMatch(resume, section_name, 1)
         IN  SubSeq(resume, m.header_end + 1, m.body_end)

\* re.sub: every non-overlapping match, left to right, is replaced by
\* header + new_body
RECURSIVE SubFrom(_, _, _, _)
SubFrom(resume, section_name, new_body, p) ==
    IF MatchStarts(resume, section_name, p) = {}
    THEN From(resume, p)
    ELSE LET m == SectionMatch(resume, section_name, p)
         IN  SubSeq(resume, p, m.header_end) \o new_body
                 \o SubFrom(resume, section_name, new_body, m.body_end + 1)

replace_section(resume, section_name, new_body) ==
    SubFrom(resume, section_name, new_body, 1)

---------------------------------------------------------------------------
(* bullet_utils.py: extract_bullets / replace_bullets                      *)

\* the end of a match of  [\t ]*(?:[-\*•])\s+.*  that starts at p, or 0:
\* the blanks, one glyph, the longest run of \s (line breaks included), then
\* the rest of the line the run ends in
BulletEnd(t, p) ==
    LET g == RunEnd(t, p, Blank) + 1
    IN  IF g + 1 <= Len(t) /\ t[g] \in Glyph /\ t[g+1] \in Space
        THEN LineEnd(t, RunEnd(t, g + 1, Space) + 1)
        ELSE 0

\* ^ under re.MULTILINE: the start of the text or just after a "\n"
AtLineStart(t, p) == p = 1 \/ t[p-1] = NL

\* re.findall from position p
RECURSIVE FindBullets(_, _)
FindBullets(t, p) ==
    IF p > Len(t) THEN <<>>
    ELSE IF AtLineStart(t, p) /\ BulletEnd(t, p) # 0
    THEN <<SubSeq(t, p, BulletEnd(t, p))>> \o FindBullets(t, BulletEnd(t, p) + 1)
    ELSE FindBullets(t, p + 1)

extract_bullets(section_text) == FindBullets(section_text, 1)

\* str.splitlines(): "\r\n" is one boundary, no empty string after a final one
RECURSIVE splitlines(_)
splitlines(t) ==
    IF t = <<>> THEN <<>>
    ELSE IF \A i \in 1..Len(t) : t[i] \notin LineBreak THEN <<t>>
    ELSE LET b == CHOOSE i \in 1..Len(t) :
                      t[i] \in LineBreak /\ \A j \in 1..(i-1) : t[j] \notin LineBreak
             w == IF t[b] = CR /\ b < Len(t) /\ t[b+1] = NL THEN 2 ELSE 1
         IN  <<SubSeq(t, 1, b - 1)>> \o splitlines(From(t, b + w))

\* re.match(r"^[\t ]*(?:[-\*•])\s+.*", line)
IsBulletLine(line) == BulletEnd(line, 1) # 0

\* the for loop of replace_bullets from line i on, bi bullets consumed
RECURSIVE SpliceLines(_, _, _, _)
SpliceLines(lines, new, i, bi) ==
    IF i > Len(lines)
    THEN SubSeq(new, bi + 1, Len(new))        \* the while loop: the surplus
    ELSE IF IsBulletLine(lines[i]) /\ bi < Len(new)
    THEN <<new[bi+1]>> \o SpliceLines(lines, new, i + 1, bi + 1)
    ELSE <<lines[i]>> \o SpliceLines(lines, new, i + 1, bi)

\* a variant whose loop never advances bi
RECURSIVE SpliceLinesStuck(_, _, _)
SpliceLinesStuck(lines, new, i) ==
    IF i > Len(lines) THEN <<>>
    ELSE IF IsBulletLine(lines[i]) /\ new # <<>>
    THEN <<new[1]>> \o SpliceLinesStuck(lines, new, i + 1)
    ELSE <<lines[i]>> \o SpliceLinesStuck(lines, new, i + 1)

replace_bullets_stuck_index(section_text, new) ==
    Join(SpliceLinesStuck(splitlines(section_text), new, 1))

\* a variant without the while loop that appends the surplus
replace_bullets_no_surplus(section_text, new) ==
    Join(SubSeq(SpliceLines(splitlines(section_text), new, 1, 0),
                1, Len(splitlines(section_text))))

\* a variant that drops a bullet line once new_bullets is exhausted
RECURSIVE SpliceLinesDropping(_, _, _, _)
SpliceLinesDropping(lines, new, i, bi) ==
    IF i > Len(lines)
    THEN SubSeq(new, bi + 1, Len(new))
    ELSE IF IsBulletLine(lines[i])
    THEN IF bi < Len(new)
         THEN <<new[bi+1]>> \o SpliceLinesDropping(lines, new, i + 1, bi + 1)
         ELSE SpliceLinesDropping(lines, new, i + 1, bi)
    ELSE <<lines[i]>> \o SpliceLinesDropping(lines, new, i + 1, bi)

replace_bullets_dropping(section_text, new) ==
    Join(SpliceLinesDropping(splitlines(section_text), new, 1, 0))

replace_bullets(section_text, new) ==
    Join(SpliceLines(splitlines(section_text), new, 1, 0))

---------------------------------------------------------------------------
(* llm_utils.py: align_bullet / align_bullets_to_job                       *)

\* re.match(r"^([\t ]*(?:[-\*•])\s+)(.*)", b): the end of group 1, or 0
PrefixEnd(b) ==
    LET g == RunEnd(b, 1, Blank) + 1
    IN  IF g + 1 <= Len(b) /\ b[g] \in Glyph /\ b[g+1] \in Space
        THEN RunEnd(b, g + 1, Space)
        ELSE 0

\* a variant whose group 1 leaves out the leading tabs/spaces
BulletPrefixUnindented(b) ==
    IF PrefixEnd(b) # 0
    THEN SubSeq(b, RunEnd(b, 1, Blank) + 1, PrefixEnd(b))
    ELSE <<"-", " ">>

\* prefix of llm_utils.py:33-36
BulletPrefix(b) ==
    IF PrefixEnd(b) # 0 THEN SubSeq(b, 1, PrefixEnd(b)) ELSE <<"-", " ">>

\* core of llm_utils.py:33-36
BulletCore(b) ==
    IF PrefixEnd(b) # 0
    THEN Strip(SubSeq(b, PrefixEnd(b) + 1, LineEnd(b, PrefixEnd(b) + 1)))
    ELSE Strip(b)

\* llm(prompt).strip(), then re.sub(r"(?i)^Rewritten Bullet Point:\s*", "", .)
CleanResponse(response) ==
    LET r == Strip(response)
    IN  IF r # <<>> /\ r[1] \in Label
        THEN From(r, RunEnd(r, 2, Space) + 1)
        ELSE r

\* what align_bullets_to_job appends for bullet b when llm returns response
AlignedBullet(b, response) == BulletPrefix(b) \o CleanResponse(response)

---------------------------------------------------------------------------
(* Bounds and input sets                                                   *)

\* most lines of a document
MaxLines == 4

\* most lines of a section body handed to extract_bullets / replace_bullets
MaxBodyLines == 3

\* most elements of a replacement list handed to replace_bullets
MaxNew == 3

\* most bullets handed to align_bullets_to_job directly
MaxBullets == 2

\* all sequences over S of length at most n
SeqsUpTo(S, n) == UNION {[1..k -> S] : k \in 0..n}

\* the lines documents are made of
DocLines ==
    { <<"WORK EXPERIENCE">>, <<"Projects">>, <<"EDUCATION">>,
      <<"-", " ", "a">>, <<"*", " ", "b", " ">>,
      <<"Side", " ", "Projects">>, <<"text">>, <<>> }

\* a document: its lines joined by "\n", with or without a final "\n"
Docs == {Join(ls) \o end : ls \in SeqsUpTo(DocLines, MaxLines), end \in {<<>>, <<NL>>}}

\* the lines section bodies are made of
BodyLines ==
    { <<"-", " ", "a">>, <<" ", "*", "\t", "b", " ">>, <<"text", " ", "-", " ", "a">>,
      <<"E", CR>>, <<"-", " ">>, <<>> }

Bodies == {Join(ls) : ls \in SeqsUpTo(BodyLines, MaxBodyLines)}

\* replacement lines
NewLines == { <<"-", " ", "z">>, <<"*", " ", "b">>, <<>> }

NewLists == SeqsUpTo(NewLines, MaxNew)

\* replacement bodies handed to replace_section
NewBodies == { <<"-", " ", "z">>, <<>>, <<"-", " ", "z", NL, "text">> }

\* bullets handed to align_bullets_to_job
BulletInputs ==
    { <<"-", " ", "a">>, <<" ", "*", "\t", "b", " ">>, <<"u2022", " ", NL, "a">>,
      <<"text", " ">>, <<"-", "a">>, <<"-", " ", "a", CR, "b">> }

JobDescriptions == {"jd1", "jd2"}

\* tailor.py:10
SectionNames == <<"Work Experience", "Projects">>

\* what llm(prompt) may return for a bullet's core text: an echo of it, a
\* rewrite, a padded rewrite that echoes the label, nothing
Responses(core) ==
    { core, <<"z">>, <<" ", "Rewritten Bullet Point:", " ", "z", NL>>, <<>> }

---------------------------------------------------------------------------
(* tailor.py: tailor_resume_file                                           *)

Init ==
    /\ pc = "extract_section"
    /\ resume_text \in Docs
    /\ job_description \in JobDescriptions
    /\ tailored = resume_text
    /\ section_idx = 1
    /\ original_section_body = <<>>
    /\ old_bullets = <<>>
    /\ new_bullets = <<>>
    /\ new_section_body = <<>>
    /\ llm_calls = <<>>
    /\ rewritten_unchanged = TRUE

section_name == SectionNames[section_idx]

\* tailor.py:11-13
ExtractSection ==
    /\ pc = "extract_section"
    /\ section_idx <= Len(SectionNames)
    /\ original_section_body' = extract_section(tailored, section_name)
    /\ IF Strip(original_section_body') = <<>>
       THEN /\ section_idx' = section_idx + 1
            /\ pc' = "extract_section"
       ELSE /\ section_idx' = section_idx
            /\ pc' = "extract_bullets"
    /\ UNCHANGED <<resume_text, job_description, tailored, old_bullets,
                   new_bullets, new_section_body, llm_calls, rewritten_unchanged>>

\* tailor.py:14-16, and llm_utils.py:30 when the call is made
ExtractBullets ==
    /\ pc = "extract_bullets"
    /\ old_bullets' = extract_bullets(original_section_body)
    /\ IF old_bullets' = <<>>
       THEN /\ section_idx' = section_idx + 1
            /\ pc' = "extract_section"
            /\ UNCHANGED new_bullets
       ELSE /\ section_idx' = section_idx
            /\ pc' = "align"
            /\ new_bullets' = <<>>
    /\ UNCHANGED <<resume_text, job_description, tailored, original_section_body,
                   new_section_body, llm_calls, rewritten_unchanged>>

\* llm_utils.py:31-38 as it would be if each rewrite were put at the front
\* of the list
AlignBulletPrepending ==
    /\ pc = "align"
    /\ Len(new_bullets) < Len(old_bullets)
    /\ LET b == old_bullets[Len(new_bullets) + 1]
       IN  \E response \in Responses(BulletCore(b)) :
              /\ new_bullets' = <<AlignedBullet(b, response)>> \o new_bullets
              /\ llm_calls' = Append(llm_calls,
                     [job_description |-> job_description,
                      bullet |-> BulletCore(b), response |-> response,
                      raised |-> FALSE])
    /\ UNCHANGED <<pc, resume_text, job_description, tailored, section_idx,
                   original_section_body, old_bullets, new_section_body,
                   rewritten_unchanged>>

\* llm_utils.py:31-38 with align_bullet (22-26): one turn of the loop, the
\* call to llm returning
AlignBullet ==
    /\ pc = "align"
    /\ Len(new_bullets) < Len(old_bullets)
    /\ LET b == old_bullets[Len(new_bullets) + 1]
       IN  \E response \in Responses(BulletCore(b)) :
              /\ new_bullets' = Append(new_bullets, AlignedBullet(b, response))
              /\ llm_calls' = Append(llm_calls,
                     [job_description |-> job_description,
                      bullet |-> BulletCore(b), response |-> response,
                      raised |-> FALSE])
    /\ UNCHANGED <<pc, resume_text, job_description, tailored, section_idx,
                   original_section_body, old_bullets, new_section_body,
                   rewritten_unchanged>>

\* llm_utils.py:24: the call to llm raises; nothing in align_bullet,
\* align_bullets_to_job or tailor_resume_file catches it
LlmRaises ==
    /\ pc = "align"
    /\ Len(new_bullets) < Len(old_bullets)
    /\ llm_calls' = Append(llm_calls,
           [job_description |-> job_description,
            bullet |-> BulletCore(old_bullets[Len(new_bullets) + 1]),
            response |-> <<>>, raised |-> TRUE])
    /\ pc' = "raised"
    /\ UNCHANGED <<resume_text, job_description, tailored, section_idx,
                   original_section_body, old_bullets, new_bullets,
                   new_section_body, rewritten_unchanged>>

\* llm_utils.py:39 and tailor.py:17-18
ReplaceBullets ==
    /\ pc = "align"
    /\ Len(new_bullets) = Len(old_bullets)
    /\ new_section_body' = replace_bullets(original_section_body, new_bullets)
    /\ rewritten_unchanged' = (rewritten_unchanged /\ new_bullets = old_bullets)
    /\ pc' = "replace_section"
    /\ UNCHANGED <<resume_text, job_description, tailored, section_idx,
                   original_section_body, old_bullets, new_bullets, llm_calls>>

\* tailor.py:19 as it would be if every section were replaced in the text
\* that was read, not in the running text
ReplaceSectionInOriginal ==
    /\ pc = "replace_section"
    /\ tailored' = replace_section(resume_text, section_name, new_section_body)
    /\ section_idx' = section_idx + 1
    /\ pc' = "extract_section"
    /\ UNCHANGED <<resume_text, job_description, original_section_body,
                   old_bullets, new_bullets, new_section_body, llm_calls,
                   rewritten_unchanged>>

\* tailor.py:19
ReplaceSection ==
    /\ pc = "replace_section"
    /\ tailored' = replace_section(tailored, section_name, new_section_body)
    /\ section_idx' = section_idx + 1
    /\ pc' = "extract_section"
    /\ UNCHANGED <<resume_text, job_description, original_section_body,
                   old_bullets, new_bullets, new_section_body, llm_calls,
                   rewritten_unchanged>>

\* tailor.py:20
Return ==
    /\ pc = "extract_section"
    /\ section_idx > Len(SectionNames)
    /\ pc' = "done"
    /\ UNCHANGED <<resume_text, job_description, tailored, section_idx,
                   original_section_body, old_bullets, new_bullets,
                   new_section_body, llm_calls, rewritten_unchanged>>

Next ==
    \/ ExtractSection
    \/ ExtractBullets
    \/ AlignBullet
    \/ LlmRaises
    \/ ReplaceBullets
    \/ ReplaceSection
    \/ Return

Spec == Init /\ [][Next]_vars

---------------------------------------------------------------------------
(* bullet_utils.py called directly: extract_section, then replace_section  *)
(* on the same document and section name                                   *)

InitSection ==
    /\ pc = "call_extract_section"
    /\ resume_text \in Docs
    /\ job_description = "jd1"
    /\ tailored = resume_text
    /\ section_idx \in 1..Len(SectionNames)
    /\ original_section_body = <<>>
    /\ old_bullets = <<>>
    /\ new_bullets = <<>>
    /\ new_section_body \in NewBodies
    /\ llm_calls = <<>>
    /\ rewritten_unchanged = TRUE

\* bullet_utils.py:5-12
CallExtractSection ==
    /\ pc = "call_extract_section"
    /\ original_section_body' = extract_section(tailored, section_name)
    /\ pc' = "call_replace_section"
    /\ UNCHANGED <<resume_text, job_description, tailored, section_idx,
                   old_bullets, new_bullets, new_section_body, llm_calls,
                   rewritten_unchanged>>

\* bullet_utils.py:15-23
CallReplaceSection ==
    /\ pc = "call_replace_section"
    /\ tailored' = replace_section(tailored, section_name, new_section_body)
    /\ pc' = "returned"
    /\ UNCHANGED <<resume_text, job_description, section_idx,
                   original_section_body, old_bullets, new_bullets,
                   new_section_body, llm_calls, rewritten_unchanged>>

NextSection == CallExtractSection \/ CallReplaceSection

SpecSection == InitSection /\ [][NextSection]_vars

---------------------------------------------------------------------------
(* bullet_utils.py called directly: extract_bullets, then replace_bullets  *)
(* on the same body with any replacement list                              *)

InitBullets ==
    /\ pc = "call_extract_bullets"
    /\ resume_text = <<>>
    /\ job_description = "jd1"
    /\ tailored = <<>>
    /\ section_idx = 1
    /\ original_section_body \in Bodies
    /\ old_bullets = <<>>
    /\ new_bullets \in NewLists
    /\ new_section_body = <<>>
    /\ llm_calls = <<>>
    /\ rewritten_unchanged = TRUE

\* bullet_utils.py:26-32
CallExtractBullets ==
    /\ pc = "call_extract_bullets"
    /\ old_bullets' = extract_bullets(original_section_body)
    /\ pc' = "call_replace_bullets"
    /\ UNCHANGED <<resume_text, job_description, tailored, section_idx,
                   original_section_body, new_bullets, new_section_body,
                   llm_calls, rewritten_unchanged>>

\* bullet_utils.py:35-55
CallReplaceBullets ==
    /\ pc = "call_replace_bullets"
    /\ new_section_body' = replace_bullets(original_section_body, new_bullets)
    /\ pc' = "returned"
    /\ UNCHANGED <<resume_text, job_description, tailored, section_idx,
                   original_section_body, old_bullets, new_bullets, llm_calls,
                   rewritten_unchanged>>

NextBullets == CallExtractBullets \/ CallReplaceBullets

SpecBullets == InitBullets /\ [][NextBullets]_vars

---------------------------------------------------------------------------
(* llm_utils.py called directly: align_bullets_to_job on any list          *)

InitAlign ==
    /\ pc = "align"
    /\ resume_text = <<>>
    /\ job_description \in JobDescriptions
    /\ tailored = <<>>
    /\ section_idx = 1
    /\ original_section_body = <<>>
    /\ old_bullets \in SeqsUpTo(BulletInputs, MaxBullets)
    /\ new_bullets = <<>>
    /\ new_section_body = <<>>
    /\ llm_calls = <<>>
    /\ rewritten_unchanged = TRUE

\* llm_utils.py:39
AlignReturn ==
    /\ pc = "align"
    /\ Len(new_bullets) = Len(old_bullets)
    /\ pc' = "returned"
    /\ UNCHANGED <<resume_text, job_description, tailored, section_idx,
                   original_section_body, old_bullets, new_bullets,
                   new_section_body, llm_calls, rewritten_unchanged>>

NextAlign == AlignBullet \/ LlmRaises \/ AlignReturn

SpecAlign == InitAlign /\ [][NextAlign]_vars

---------------------------------------------------------------------------
(* Both entry points of C9: tailor_resume_file, or the section functions   *)
(* called directly                                                         *)

InitNoOp == Init \/ InitSection

NextNoOp == Next \/ NextSection

SpecNoOp == InitNoOp /\ [][NextNoOp]_vars

---------------------------------------------------------------------------
(* Vocabulary of the properties                                            *)

\* the lines of a text, "\n" being the separator
RECURSIVE SplitNL(_)
SplitNL(t) ==
    IF \A i \in 1..Len(t) : t[i] # NL THEN <<t>>
    ELSE <<SubSeq(t, 1, LineEnd(t, 1))>> \o SplitNL(From(t, LineEnd(t, 1) + 2))

\* a line equal to the section name, case-insensitively
IsHeadingOf(line, name) == Len(line) = 1 /\ Lower(line[1]) = Lower(name)

\* an all-uppercase heading line: an uppercase letter followed by uppercase
\* letters and/or spaces
IsUpperHeading(line) ==
    /\ line # <<>>
    /\ line[1] \in UpperWord
    /\ \A i \in 1..Len(line) : line[i] \in UpperWord \cup {" "}
    /\ SumLen(line) >= 2

HasHeading(t, name) == \E i \in 1..Len(SplitNL(t)) : IsHeadingOf(SplitNL(t)[i], name)

\* index of the first heading line of the section
HeadingIdx(t, name) ==
    Min({i \in 1..Len(SplitNL(t)) : IsHeadingOf(SplitNL(t)[i], name)})

\* index of the next all-uppercase heading line after line h, or one past the
\* last line
NextHeadingIdx(t, h) ==
    Min({i \in (h+1)..Len(SplitNL(t)) : IsUpperHeading(SplitNL(t)[i])}
            \cup {Len(SplitNL(t)) + 1})

\* the body as the specification describes it: the lines after the heading
\* line up to the next all-uppercase heading line or the end of the document
DescribedBody(t, name) ==
    LET h == HeadingIdx(t, name)
    IN  Join(SubSeq(SplitNL(t), h + 1, NextHeadingIdx(t, h) - 1))

\* the section name occurs in the line, as the whole line or inside it
Mentions(line, name) == \E i \in 1..Len(line) : Lower(line[i]) = Lower(name)

\* a plain section: the heading line is the only line that mentions the
\* name, and its body is one or more bullet lines that end at the end of the
\* document or at an all-uppercase heading line followed by further text
PlainSection(t, name) ==
    /\ HasHeading(t, name)
    /\ LET ls == SplitNL(t)
           h == HeadingIdx(t, name)
           n == NextHeadingIdx(t, h)
       IN  /\ \A i \in 1..Len(ls) : Mentions(ls[i], name) => i = h
           /\ n >= h + 2
           /\ n # Len(ls)
           /\ \A i \in (h+1)..(n-1) : IsBulletLine(ls[i])

\* the pattern of extract_section / replace_section finds no section
NotFound(t, name) == MatchStarts(t, name, 1) = {}

---------------------------------------------------------------------------
(* C1 *)

\* C1 (as claimed, on plain sections): whenever the document has a heading
\* line equal to the section name, extract_section returns exactly the text
\* after that line up to the next all-uppercase heading line or the end of
\* the document, for a body of any number of lines: for WORK EXPERIENCE / two
\* bullet lines / EDUCATION / text it returns both bullet lines.
C1_BodyOfAnyLength ==
    (pc # "call_extract_section" /\ PlainSection(resume_text, section_name))
        => original_section_body = DescribedBody(resume_text, section_name)

---------------------------------------------------------------------------
(* C7 *)

\* C7 (as claimed): replace_section changes exactly the one span whose body
\* extract_section returns, the body of the first match; a later occurrence
\* of the heading and the text under it stay as they were.
C7_OnlyFirstSpanReplaced ==
    pc = "returned" =>
        tailored =
            IF NotFound(resume_text, section_name) THEN resume_text
            ELSE LET m == SectionMatch(resume_text, section_name, 1)
                 IN  SubSeq(resume_text, 1, m.header_end) \o new_section_body
                         \o From(resume_text, m.body_end + 1)

---------------------------------------------------------------------------
(* C8 *)

\* C8 (as claimed, on plain sections): for a section with a body of one or
\* more lines followed by a further all-uppercase heading, replace_section
\* returns the text before the heading, the heading line, new_body, and the
\* text from the end of the old body on.
C8_Reconstruction ==
    (/\ pc = "returned"
     /\ PlainSection(resume_text, section_name)
     /\ NextHeadingIdx(resume_text, HeadingIdx(resume_text, section_name))
            < Len(SplitNL(resume_text))) =>
        LET ls == SplitNL(resume_text)
            h == HeadingIdx(resume_text, section_name)
            n == NextHeadingIdx(resume_text, h)
        IN  tailored = Join(SubSeq(ls, 1, h)) \o <<NL>> \o new_section_body
                           \o <<NL>> \o Join(SubSeq(ls, n, Len(ls)))

---------------------------------------------------------------------------
(* C2 *)

\* C2 (as claimed): when every list of rewritten bullets equalled the list
\* of extracted bullets, the text tailor_resume_file returns is the loaded
\* document text.
C2_IdentityRoundTrip ==
    (pc = "done" /\ rewritten_unchanged) => tailored = resume_text

---------------------------------------------------------------------------
(* C6 *)

\* the call made for the i-th bullet of the list being aligned
CallFor(i) ==
    llm_calls[Len(llm_calls) - Len(new_bullets) - (IF pc = "raised" THEN 1 ELSE 0) + i]

\* C6 (as claimed): a failure of the rewriting service is absorbed: no
\* exception leaves align_bullets_to_job or tailor_resume_file, and a bullet
\* whose call returned an empty response is yielded as its original line.
C6_FailureAbsorbed ==
    /\ pc # "raised"
    /\ pc = "align" =>
          \A i \in 1..Len(new_bullets) :
              (~CallFor(i).raised /\ CallFor(i).response = <<>>)
                  => new_bullets[i] = old_bullets[i]

---------------------------------------------------------------------------
(* C9 *)

\* C9: when the pattern finds neither "Work Experience" nor "Projects" in the
\* document, tailor_resume_file returns the text unchanged and has made no
\* call to the rewriting service; and replace_section returns the document
\* unchanged when the pattern does not find the section.
C9_NoOpOnAbsentSections ==
    /\ (/\ pc = "done"
        /\ \A i \in 1..Len(SectionNames) : NotFound(resume_text, SectionNames[i]))
           => (tailored = resume_text /\ llm_calls = <<>>)
    /\ (pc = "returned" /\ NotFound(resume_text, section_name))
           => tailored = resume_text

\* tailor_resume_file returned for a document of three or more lines that has
\* bullet lines and the word "Projects" but no section the pattern finds
C9_Witness ==
    /\ pc = "done"
    /\ \A i \in 1..Len(SectionNames) : NotFound(resume_text, SectionNames[i])
    /\ extract_bullets(resume_text) # <<>>
    /\ \E i \in 1..Len(resume_text) : Lower(resume_text[i]) = "projects"
    /\ Len(SplitNL(resume_text)) >= 3

---------------------------------------------------------------------------
(* C3, C4, C5 *)

\* the lines of the body handed to replace_bullets
BodyLinesOf == splitlines(original_section_body)

\* the positions of the bullet lines b1..bn of the body
BulletPositions == {i \in 1..Len(BodyLinesOf) : IsBulletLine(BodyLinesOf[i])}

\* i is the position of the Rank(i)-th bullet line
Rank(i) == Cardinality({j \in BulletPositions : j <= i})

\* n and k
NumBullets == Cardinality(BulletPositions)
NumNew == Len(new_bullets)

\* line i of the body after a positional replacement: the Rank(i)-th
\* replacement where line i is a bullet line that has one, else line i itself
PositionalLine(i) ==
    IF i \in BulletPositions /\ Rank(i) <= NumNew
    THEN new_bullets[Rank(i)]
    ELSE BodyLinesOf[i]

PositionalLines == [i \in 1..Len(BodyLinesOf) |-> PositionalLine(i)]

\* C3: with as many replacements as bullet lines, replace_bullets returns
\* the "\n"-join of as many lines as the body has, in which the line that
\* held the i-th bullet holds the i-th replacement and every other line is
\* the original line, at its position.
C3_PositionalReplacement ==
    (pc = "returned" /\ NumNew = NumBullets) =>
        /\ new_section_body = Join(PositionalLines)
        /\ \A i \in 1..Len(BodyLinesOf) :
              i \notin BulletPositions => PositionalLines[i] = BodyLinesOf[i]

\* two bullet lines around other lines were replaced by two different lines
C3_Witness ==
    /\ pc = "returned"
    /\ NumNew = NumBullets
    /\ NumBullets = 2
    /\ new_bullets[1] # new_bullets[2]
    /\ Len(BodyLinesOf) > NumBullets
    /\ new_section_body # original_section_body

\* C4: with k replacements for n < k bullet lines, replace_bullets replaces
\* the n bullet lines positionally and the last k - n replacements follow
\* every original line as new lines, in list order, each once; no other line
\* is removed or moved.
C4_SurplusAppended ==
    (pc = "returned" /\ NumNew > NumBullets) =>
        new_section_body =
            Join(PositionalLines \o SubSeq(new_bullets, NumBullets + 1, NumNew))

\* one bullet line, a line that is no bullet, three replacements
C4_Witness ==
    /\ pc = "returned"
    /\ NumBullets = 1
    /\ NumNew = 3
    /\ new_bullets[2] # new_bullets[3]
    /\ Len(BodyLinesOf) > NumBullets

\* C5: with k replacements for n > k bullet lines, replace_bullets replaces
\* the first k bullet lines positionally and the last n - k bullet lines stay
\* as they are, at their positions; no line is deleted.
C5_ShortfallKeepsOriginals ==
    (pc = "returned" /\ NumNew < NumBullets) =>
        /\ new_section_body = Join(PositionalLines)
        /\ \A i \in BulletPositions :
              Rank(i) > NumNew => PositionalLines[i] = BodyLinesOf[i]

\* one replacement for two bullet lines
C5_Witness ==
    /\ pc = "returned"
    /\ NumNew = 1
    /\ NumBullets >= 2
    /\ new_section_body # original_section_body

---------------------------------------------------------------------------
(* C10 *)

\* b starts with a marker: tabs/spaces, a glyph, whitespace
HasMarker(b) ==
    \E g \in 1..Len(b) :
        /\ \A j \in 1..(g-1) : b[j] \in Blank
        /\ b[g] \in Glyph
        /\ g < Len(b)
        /\ b[g+1] \in Space

\* the marker prefix p of b, with the text r after it: the leading
\* tabs/spaces, the glyph and all the whitespace that follows it
IsMarkerSplit(b, p, r) ==
    /\ p \o r = b
    /\ \E g \in 1..Len(p) :
          /\ \A j \in 1..(g-1) : p[j] \in Blank
          /\ p[g] \in Glyph
          /\ g < Len(p)
          /\ \A j \in (g+1)..Len(p) : p[j] \in Space
    /\ (r = <<>> \/ r[1] \notin Space)

\* C10: every line align_bullets_to_job produces is the original marker
\* prefix of its bullet followed by the cleaned model output, whatever the
\* model returned; the text sent to the model is the bullet's text without
\* that prefix (and without surrounding whitespace); a bullet without a
\* marker gets the prefix "- ".
C10_MarkerPreserved ==
    \A i \in 1..Len(new_bullets) :
        LET b == old_bullets[i]
            out == new_bullets[i]
            call == CallFor(i)
        IN  IF HasMarker(b)
            THEN \E k \in 1..Len(b) :
                    /\ IsMarkerSplit(b, SubSeq(b, 1, k), From(b, k + 1))
                    /\ out = SubSeq(b, 1, k) \o CleanResponse(call.response)
                    /\ call.bullet = Strip(From(b, k + 1))
            ELSE /\ out = <<"-", " ">> \o CleanResponse(call.response)
                 /\ call.bullet = Strip(b)

\* an indented bullet and a line without a marker were both rewritten, the
\* model echoing its label for one of them
C10_Witness ==
    /\ pc = "returned"
    /\ Len(new_bullets) = 2
    /\ \E i \in 1..2 : HasMarker(old_bullets[i]) /\ old_bullets[i][1] \in Blank
    /\ \E i \in 1..2 : ~HasMarker(old_bullets[i])
    /\ \E i \in 1..2 : CallFor(i).response # <<>> /\ CallFor(i).response # CleanResponse(CallFor(i).response)

---------------------------------------------------------------------------
(* C11 *)

\* the whole line, its trailing whitespace ignored, is the section name
IsWholeLineHeading(line, name) ==
    /\ line # <<>>
    /\ Lower(line[1]) = Lower(name)
    /\ \A i \in 2..Len(line) : line[i] \in Space

HasWholeLineHeading(t, name) ==
    \E i \in 1..Len(SplitNL(t)) : IsWholeLineHeading(SplitNL(t)[i], name)

\* C11 (as claimed): only a line that as a whole, trailing whitespace
\* ignored, equals the section name is taken as its heading: in a document
\* without such a line (one with "Side Projects" only, say) extract_section
\* finds no body and replace_section changes nothing.
C11_WholeLineHeading ==
    ~HasWholeLineHeading(resume_text, section_name) =>
        /\ pc # "call_extract_section" => original_section_body = <<>>
        /\ pc = "returned" => tailored = resume_text

---------------------------------------------------------------------------
(* C12 *)

\* the line that follows position q and its "\n"
LineAfter(t, q) == SubSeq(t, q + 2, LineEnd(t, q + 2))

\* C12 (as claimed): the body extract_section returns ends only at the end
\* of the document or before an all-uppercase heading line; a line with a
\* lower-case letter never ends it.
C12_UppercaseEndsBody ==
    (pc # "call_extract_section" /\ ~NotFound(resume_text, section_name)) =>
        LET m == SectionMatch(resume_text, section_name, 1)
        IN  /\ original_section_body
                   = SubSeq(resume_text, m.header_end + 1, m.body_end)
            /\ \/ m.body_end = Len(resume_text)
               \/ IsUpperHeading(LineAfter(resume_text, m.body_end))

---------------------------------------------------------------------------
(* C13 *)

\* the lines of the body that replace_bullets treats as bullet lines
SplicerBulletLines == SelectSeq(BodyLinesOf, IsBulletLine)

\* C13 (as claimed): extract_bullets returns, in order, exactly the lines of
\* the body that replace_bullets treats as bullet lines, so that the number
\* of extracted bullets is the number of lines the splicer would replace.
C13_ExtractorSplicerAgree ==
    pc # "call_extract_bullets" => old_bullets = SplicerBulletLines

---------------------------------------------------------------------------
(* C14 *)

\* one section processed to completion on the text it is given: the text
\* that results and the number of rewrites it takes, the rewrites being the
\* first of calls; a section with an empty body or no bullets is skipped
SectionStep(text, name, calls) ==
    LET body == extract_section(text, name)
        bullets == extract_bullets(body)
        rewritten == [k \in 1..Len(bullets) |->
                         AlignedBullet(bullets[k], calls[k].response)]
    IN  IF Strip(body) = <<>> \/ bullets = <<>>
        THEN [text |-> text, used |-> 0]
        ELSE [text |-> replace_section(text, name,
                                       replace_bullets(body, rewritten)),
              used |-> Len(bullets)]

\* "Work Experience" processed on the text that was read
AfterWorkExperience == SectionStep(resume_text, SectionNames[1], llm_calls)

\* "Projects" processed on what the "Work Experience" step produced, with
\* the rewrites made after those of "Work Experience"
AfterProjects ==
    LET first == AfterWorkExperience
    IN  SectionStep(first.text, SectionNames[2],
                    SubSeq(llm_calls, first.used + 1, Len(llm_calls)))

\* C14: the sections are processed one after the other. Until "Work
\* Experience" is complete the running text is the text that was read and
\* every rewrite made is of one of its bullets; "Projects" is located in, and
\* replaced in, the text the "Work Experience" step produced, after all of
\* that step's rewrites; a skipped section leaves the running text as it was
\* and the next section is still processed.
C14_SequentialSections ==
    /\ section_idx = 1 =>
          /\ tailored = resume_text
          /\ pc # "extract_section" =>
                original_section_body
                    = extract_section(resume_text, SectionNames[1])
    /\ section_idx = 2 =>
          LET first == AfterWorkExperience
          IN  /\ tailored = first.text
              /\ Len(llm_calls) >= first.used
              /\ pc # "extract_section" =>
                    original_section_body
                        = extract_section(tailored, SectionNames[2])
    /\ section_idx = 3 =>
          LET first == AfterWorkExperience
              second == AfterProjects
          IN  /\ tailored = second.text
              /\ Len(llm_calls) = first.used + second.used

\* both sections were rewritten, each changing the text, and the run ended
C14_Witness ==
    /\ pc = "done"
    /\ AfterWorkExperience.used > 0
    /\ AfterProjects.used > 0
    /\ AfterWorkExperience.text # resume_text
    /\ tailored # AfterWorkExperience.text

---------------------------------------------------------------------------
(* C15 *)

\* C15: when align_bullets_to_job has returned (no call raised) it has
\* made one call per input bullet, the i-th call for the i-th bullet with
\* the job description it was given, and the list it returns has the length
\* of the input, its i-th element being the rewrite of the i-th bullet; so
\* the list that goes to replace_bullets is as long as the extracted one.
C15_OneRewritePerBullet ==
    pc \in {"returned", "replace_section"} =>
        /\ Len(new_bullets) = Len(old_bullets)
        /\ Len(llm_calls) >= Len(old_bullets)
        /\ pc = "returned" => Len(llm_calls) = Len(old_bullets)
        /\ \A i \in 1..Len(old_bullets) :
              /\ ~CallFor(i).raised
              /\ CallFor(i).job_description = job_description
              /\ CallFor(i).bullet = BulletCore(old_bullets[i])
              /\ new_bullets[i] = AlignedBullet(old_bullets[i], CallFor(i).response)

\* two different bullets were rewritten, to two different lines
C15_Witness ==
    /\ pc = "returned"
    /\ Len(old_bullets) = 2
    /\ BulletCore(old_bullets[1]) # BulletCore(old_bullets[2])
    /\ new_bullets[1] # new_bullets[2]
    /\ new_bullets[1] # old_bullets[1]
    /\ new_bullets[2] # old_bullets[2]

=============================================================================
